---------------------------- MODULE Spec2Model ----------------------------
(***************************************************************************)
(* PolyAstra trading bot (src/polyastra.py): the driver loop of main, the  *)
(* decision pass trade_symbol, the order gateway place_order, the ledger   *)
(* (table trades of trades.db) and the settlement pass                     *)
(* check_and_settle_trades.                                                *)
(*                                                                         *)
(* Units.  Time is in whole seconds since an instant that is a 15-minute   *)
(* boundary (the offsets of America/New_York from UTC are whole hours, so  *)
(* the boundaries of both zones coincide).  Prices, the imbalance and USD  *)
(* stakes are in 1/10000; the edge is in 1/100000; sizes are in 1/1000000  *)
(* share (the code rounds sizes to 6 places); pnl_usd is in 1/1000000 USD  *)
(* and roi_pct in 1/100 percent.  A column that is NULL is <<>>, a column  *)
(* holding v is <<v>>.                                                     *)
(***************************************************************************)
EXTENDS Integers, Sequences, FiniteSets, TLC

VARIABLES
    MARKETS,      \* the configured symbols, in order (module constant of the bot)
    env,          \* what the collaborators of the bot can answer in this run
    clock,        \* the wall clock
    pc,           \* the driver's position
    cycle,        \* main's cycle counter, modulo REPORT_EVERY (line 647)
    idx,          \* index in MARKETS of the symbol of the running decision pass
    ts,           \* the locals of the running trade_symbol call
    st,           \* the locals of the running check_and_settle_trades call
    ledger,       \* the committed rows of table trades, row id = index
    calls,        \* history: every place_order call, with the result it returned
    applied,      \* history: per row id, the committed UPDATEs that settled it
    probe         \* one application of a function of the bot: inputs and result

vars == <<MARKETS, env, clock, pc, cycle, idx, ts, st, ledger, calls, applied, probe>>

---------------------------------------------------------------------------
\* Bounds of the model.

\* Windows after the start of the run within which the driver starts cycles.
MaxWindows == 3

\* Times the order book offers an edge that passes the decision thresholds.
MaxTrades == 2

\* Program constants.
WINDOW_SEC == 900
WINDOW_DELAY_SEC == 12
LOOKUP_ATTEMPTS == 12
LOOKUP_SLEEP_SEC == 4
SYMBOL_SLEEP_SEC == 1
ERROR_SLEEP_SEC == 60
REPORT_EVERY == 16
PRICE_ONE == 10000
EDGE_ONE == 100000
BET_USD == 11000
MIN_EDGE == 56500
MAX_SPREAD == 1500
MIN_SIZE == 5000000
PRICE_MIN == 100
PRICE_MAX == 9900
SENTIMENT_STEP == 3000
FEAR_BELOW == 30
GREED_ABOVE == 70
NEUTRAL_SENTIMENT == 50

\* A call of the exchange client that does not return before the window ends.
SlowCall == 900

\* The windows of a run that are told apart: those of the environment.
Horizon == env.windows * WINDOW_SEC

\* Every window traded before the Horizon has ended by LateTime; later times
\* are not told apart.
LateTime == Horizon + 2 * WINDOW_SEC

None == <<>>
Some(v) == <<v>>
IsSome(x) == x # <<>>

Max(a, b) == IF a >= b THEN a ELSE b
Min(a, b) == IF a <= b THEN a ELSE b
RoundDiv(a, b) == (2 * a + b) \div (2 * b)
Last(s) == s[Len(s)]
SeqToSet(s) == {s[i] : i \in 1..Len(s)}

---------------------------------------------------------------------------
\* Window clock.

Minute(t) == (t \div 60) % 60
Second(t) == t % 60

\* America/New_York.  The run starts in daylight time (UTC-4); at DstEnd the
\* zone goes back to standard time (UTC-5) and its wall clock repeats an
\* hour.  A datetime of the zone is its wall clock reading, in seconds on the
\* scale of UTC, and its fold (1: the second pass through a repeated hour).
EDT == 4 * 3600
EST == 5 * 3600
DstEnd == 2 * 3600

\* datetime.now(tz=ZoneInfo("America/New_York")) at the instant t
ToNewYork(t) ==
    IF t < DstEnd THEN [wall |-> t - EDT, fold |-> 0]
    ELSE [wall |-> t - EST, fold |-> IF t < DstEnd + 3600 THEN 1 ELSE 0]

ToUtc_IgnoresFold(d) ==
    IF d.wall < DstEnd - EDT THEN d.wall + EDT ELSE d.wall + EST

\* astimezone(ZoneInfo("UTC")): the offset is that of the wall clock reading,
\* the fold telling the two passes through the repeated hour apart.
ToUtc(d) ==
    IF d.wall < DstEnd - EST THEN d.wall + EDT
    ELSE IF d.wall < DstEnd - EDT /\ d.fold = 0 THEN d.wall + EDT
    ELSE d.wall + EST

\* now_et.replace(minute=(now_et.minute // 15) * 15, second=0, microsecond=0)
WindowStartEt(now_et) ==
    [now_et EXCEPT !.wall = @ - (Minute(@) - (Minute(@) \div 15) * 15) * 60
                              - Second(@)]

\* int(window_start_utc.timestamp())
WindowStart(t) == ToUtc(WindowStartEt(ToNewYork(t)))

\* str.lower() on the symbols of the model.
Lower(s) ==
    CASE s = "BTC" -> "btc"
      [] s = "ETH" -> "eth"
      [] s = "XRP" -> "xrp"
      [] s = "SOL" -> "sol"
      [] s = "DOGE" -> "doge"
      [] OTHER -> s

\* f"{symbol.lower()}-updown-15m-{ts}"
get_current_slug(symbol, t) == <<Lower(symbol), "updown-15m", WindowStart(t)>>

\* window_start_et and window_start_et + timedelta(minutes=15), as instants:
\* the sum is taken on the wall clock and has fold 0.
get_window_times(t) ==
    LET window_start_et == WindowStartEt(ToNewYork(t))
        window_end_et == [wall |-> window_start_et.wall + WINDOW_SEC, fold |-> 0]
    IN  <<ToUtc(window_start_et), ToUtc(window_end_et)>>

WaitSeconds_WholeMinute(t) ==
    LET w == WINDOW_SEC - (Minute(t) * 60 + Second(t))
    IN  IF w <= 0 THEN w + WINDOW_SEC ELSE w

\* main: wait = 900 - ((now.minute % 15) * 60 + now.second); if wait <= 0: wait += 900
WaitSeconds(t) ==
    LET w == WINDOW_SEC - ((Minute(t) % 15) * 60 + Second(t))
    IN  IF w <= 0 THEN w + WINDOW_SEC ELSE w

ClampDelay_NoCap(raw) == IF raw < 0 THEN 0 ELSE raw

\* Lines 31-35: WINDOW_DELAY_SEC from the integer of the environment variable.
ClampDelay(raw) == IF raw < 0 THEN 0 ELSE IF raw > 300 THEN 300 ELSE raw

---------------------------------------------------------------------------
\* Market resolver: the tokens the lookup names for a slug.

UpToken(slug) == <<slug, "UP">>
DownToken(slug) == <<slug, "DOWN">>

---------------------------------------------------------------------------
\* Signal engine.

\* What get_order_book answers: the read raises, or it gives the price levels
\* of the book, or it gives levels whose best price is not a number.
BookError == [kind |-> "error"]
Book(bids, asks) == [kind |-> "book", bids |-> bids, asks |-> asks]
MalformedBook == [kind |-> "malformed"]

\* What a feed answers: the fetch raises (no connection, no JSON, a missing
\* key, no number), or it gives the value.  The funding rate is in 1/1000000.
FeedError == [kind |-> "error"]
FeedValue(v) == [kind |-> "value", value |-> v]

\* What a function of the bot does: it raises, or it returns v.
Raised == [raised |-> TRUE]
Returned(v) == [raised |-> FALSE, value |-> v]

BINANCE_FUNDING_MAP == {"BTC", "ETH", "XRP", "SOL"}

\* get_funding_bias (lines 234-244): funding * 1000.0, in 1/100000.
get_funding_bias(symbol, answer) ==
    IF symbol \notin BINANCE_FUNDING_MAP THEN Returned(0)
    ELSE IF answer.kind = "error" THEN Returned(0)
    ELSE Returned((answer.value * 1000) \div 10)

get_fear_greed_Raises(answer) ==
    IF answer.kind = "error" THEN Raised
    ELSE Returned(answer.value)

\* get_fear_greed (lines 246-251)
get_fear_greed(answer) ==
    IF answer.kind = "error" THEN Returned(NEUTRAL_SENTIMENT)
    ELSE Returned(answer.value)

Degraded_ZeroEdge(reason, bid, ask) ==
    [raised |-> FALSE, edge |-> 0, reason |-> reason, p_up |-> PRICE_ONE \div 2,
     best_bid |-> bid, best_ask |-> ask, imbalance |-> 0]

\* The early returns of calculate_edge (lines 267, 270, 282, 287):
\* 0.5, reason, 0.5, best_bid, best_ask, 0.5
Degraded(reason, bid, ask) ==
    [raised |-> FALSE, edge |-> EDGE_ONE \div 2, reason |-> reason,
     p_up |-> PRICE_ONE \div 2, best_bid |-> bid, best_ask |-> ask,
     imbalance |-> PRICE_ONE \div 2]

EdgeOf_NoClamp(best_bid, best_ask, funding, fg) ==
    LET p_up == (best_bid + best_ask) \div 2
        imbalance_raw == best_bid - (PRICE_ONE - best_ask)
        imbalance == (imbalance_raw + PRICE_ONE \div 10) * 5
        base == 7 * p_up + 3 * imbalance + funding
        edge == IF fg < FEAR_BELOW THEN base + SENTIMENT_STEP
                ELSE IF fg > GREED_ABOVE THEN base - SENTIMENT_STEP
                ELSE base
    IN  [raised |-> FALSE, edge |-> edge, reason |-> "OK", p_up |-> p_up,
         best_bid |-> Some(best_bid), best_ask |-> Some(best_ask),
         imbalance |-> imbalance]

\* calculate_edge, lines 289-305, on the best bid, the best ask, the funding
\* bias and the fear-and-greed index.
EdgeOf(best_bid, best_ask, funding, fg) ==
    LET p_up == (best_bid + best_ask) \div 2
        imbalance_raw == best_bid - (PRICE_ONE - best_ask)
        imbalance ==
            Max(Min((imbalance_raw + PRICE_ONE \div 10) * 5, PRICE_ONE), 0)
        base == 7 * p_up + 3 * imbalance + funding
        edge == IF fg < FEAR_BELOW THEN base + SENTIMENT_STEP
                ELSE IF fg > GREED_ABOVE THEN base - SENTIMENT_STEP
                ELSE base
    IN  [raised |-> FALSE, edge |-> edge, reason |-> "OK", p_up |-> p_up,
         best_bid |-> Some(best_bid), best_ask |-> Some(best_ask),
         imbalance |-> imbalance]

\* calculate_edge (lines 255-305) on the order book read and on the answers
\* of the funding feed and of the fear-and-greed feed, which are fetched only
\* for a book that is not degraded.  The comparisons are exact: the rounding
\* of the doubles of the code is below the resolution of the model.
calculate_edge(symbol, book, funding, fg) ==
    IF book.kind = "error" THEN Degraded("order book error", None, None)
    ELSE IF book.kind = "malformed" THEN Raised  \* float(), lines 277-279
    ELSE IF book.bids = <<>> \/ book.asks = <<>>
    THEN Degraded("empty order book", None, None)
    ELSE LET best_bid == Last(book.bids)
             best_ask == Last(book.asks)
             bias == get_funding_bias(symbol, funding)
             index == get_fear_greed(fg)
         IN  IF best_bid = 0 \/ best_ask = 0
             THEN Degraded("no bid/ask", Some(best_bid), Some(best_ask))
             ELSE IF best_ask - best_bid > MAX_SPREAD
             THEN Degraded("spread", Some(best_bid), Some(best_ask))
             ELSE IF bias.raised \/ index.raised THEN Raised
             ELSE EdgeOf(best_bid, best_ask, bias.value, index.value)

---------------------------------------------------------------------------
\* Decision function and sizing (trade_symbol, lines 533-568).

Decide_Strict(sig) ==
    IF sig.edge > MIN_EDGE THEN [side |-> "UP", price |-> sig.p_up]
    ELSE IF sig.edge < EDGE_ONE - MIN_EDGE
    THEN [side |-> "DOWN", price |-> PRICE_ONE - sig.p_up]
    ELSE [side |-> "NONE", price |-> 0]

Decide_UpPriceForDown(sig) ==
    IF sig.edge >= MIN_EDGE THEN [side |-> "UP", price |-> sig.p_up]
    ELSE IF sig.edge <= EDGE_ONE - MIN_EDGE
    THEN [side |-> "DOWN", price |-> sig.p_up]
    ELSE [side |-> "NONE", price |-> 0]

Decide(sig) ==
    IF sig.edge >= MIN_EDGE THEN [side |-> "UP", price |-> sig.p_up]
    ELSE IF sig.edge <= EDGE_ONE - MIN_EDGE
    THEN [side |-> "DOWN", price |-> PRICE_ONE - sig.p_up]
    ELSE [side |-> "NONE", price |-> 0]

\* str.upper() on the strings of the model.
Upper(s) ==
    CASE s = "up" -> "UP"
      [] s = "down" -> "DOWN"
      [] s = "flat" -> "FLAT"
      [] s = "None" -> "NONE"
      [] s = "btc" -> "BTC"
      [] s = "eth" -> "ETH"
      [] OTHER -> s

\* What the trend filter answers: BFXD_URL is unset; the fetch raises (no
\* connection, HTTP error status, no JSON); the JSON is not an object; the
\* JSON is an object and str(data.get("BTC/USDT", "")) is trend.
BfxdOff == [kind |-> "off"]
BfxdError == [kind |-> "error"]
BfxdNotObject == [kind |-> "not_object"]
BfxdTrend(trend) == [kind |-> "object", trend |-> trend]

BfxdAllows_FailClosed(symbol, side, answer) ==
    IF answer.kind = "off" THEN TRUE
    ELSE IF Upper(symbol) # "BTC" THEN TRUE
    ELSE IF answer.kind = "error" THEN FALSE
    ELSE IF answer.kind = "not_object" THEN TRUE
    ELSE IF Upper(answer.trend) = "" THEN TRUE
    ELSE IF Upper(answer.trend) \notin {"UP", "DOWN"} THEN TRUE
    ELSE Upper(answer.trend) = Upper(side)

\* bfxd_allows_trade (lines 309-355) on the answer of the filter.
BfxdAllows(symbol, side, answer) ==
    IF answer.kind = "off" THEN TRUE
    ELSE IF Upper(symbol) # "BTC" THEN TRUE
    ELSE IF answer.kind = "error" THEN TRUE
    ELSE IF answer.kind = "not_object" THEN TRUE
    ELSE IF Upper(answer.trend) = "" THEN TRUE
    ELSE IF Upper(answer.trend) \notin {"UP", "DOWN"} THEN TRUE
    ELSE Upper(answer.trend) = Upper(side)

ClampPrice_FloorOnly(p) == Max(PRICE_MIN, p)

\* price = max(0.01, min(0.99, price))
ClampPrice(p) == Max(PRICE_MIN, Min(PRICE_MAX, p))

\* round(stake / price, 6), by long division
BaseSize(price, stake) ==
    LET q1 == stake \div price
        r1 == stake % price
        q2 == (r1 * 1000) \div price
        r2 == (r1 * 1000) % price
        q3 == RoundDiv(r2 * 1000, price)
    IN  q1 * 1000000 + q2 * 1000 + q3

Sizing_KeepsStake(price, stake) ==
    LET size == BaseSize(price, stake)
    IN  IF size < MIN_SIZE
        THEN [size |-> MIN_SIZE, bet_usd |-> stake]
        ELSE [size |-> size, bet_usd |-> stake]

\* Lines 555-564 with BET_USD = stake: the size and the effective stake,
\* round(size * price, 4).
Sizing(price, stake) ==
    LET size == BaseSize(price, stake)
    IN  IF size < MIN_SIZE
        THEN [size |-> MIN_SIZE, bet_usd |-> (MIN_SIZE \div 1000000) * price]
        ELSE [size |-> size, bet_usd |-> stake]

\* Lines 547-564 on the price of the decision: None when trade_symbol
\* returns at the price check, else the price, the size and the stake of the
\* order.
OrderArgs(price, stake) ==
    IF price <= 0 THEN None
    ELSE LET clamped == ClampPrice(price)
             sz == Sizing(clamped, stake)
         IN  Some([price |-> clamped, size |-> sz.size, bet_usd |-> sz.bet_usd])

---------------------------------------------------------------------------
\* Execution gateway.

\* place_order (lines 359-420).  outcome is what the client does:
\*   "sign_error"  create_order raises, nothing is posted
\*   "post_error"  post_order raises
\*   "no_resp"     post_order returns an empty response
\*   "live"        post_order returns {status: live, orderID: order_id}
\* posts is the number of post_order calls made; raised is TRUE when an
\* exception leaves place_order.
place_order_Retry(outcome, order_id) ==
    IF outcome = "sign_error"
    THEN [success |-> FALSE, status |-> "ERROR", order_id |-> None,
          posts |-> 0, raised |-> FALSE]
    ELSE IF outcome = "post_error"
    THEN [success |-> FALSE, status |-> "ERROR", order_id |-> None,
          posts |-> 2, raised |-> FALSE]
    ELSE IF outcome = "no_resp"
    THEN [success |-> TRUE, status |-> "UNKNOWN", order_id |-> None,
          posts |-> 1, raised |-> FALSE]
    ELSE [success |-> TRUE, status |-> "live", order_id |-> Some(order_id),
          posts |-> 1, raised |-> FALSE]

place_order(outcome, order_id) ==
    IF outcome = "sign_error"
    THEN [success |-> FALSE, status |-> "ERROR", order_id |-> None,
          posts |-> 0, raised |-> FALSE]
    ELSE IF outcome = "post_error"
    THEN [success |-> FALSE, status |-> "ERROR", order_id |-> None,
          posts |-> 1, raised |-> FALSE]
    ELSE IF outcome = "no_resp"
    THEN [success |-> TRUE, status |-> "UNKNOWN", order_id |-> None,
          posts |-> 1, raised |-> FALSE]
    ELSE [success |-> TRUE, status |-> "live", order_id |-> Some(order_id),
          posts |-> 1, raised |-> FALSE]

---------------------------------------------------------------------------
\* Ledger.

\* The row save_trade inserts (lines 166-187); the settlement columns take
\* their defaults.
NewRow(now, symbol, window, slug, d, sig, funding, result) ==
    [timestamp |-> now, symbol |-> symbol,
     window_start |-> window[1], window_end |-> window[2], slug |-> slug,
     token_id |-> d.token_id, side |-> d.side, edge |-> sig.edge,
     entry_price |-> d.price, size |-> d.size, bet_usd |-> d.bet_usd,
     p_yes |-> sig.p_up, best_bid |-> sig.best_bid, best_ask |-> sig.best_ask,
     imbalance |-> sig.imbalance, funding_bias |-> funding,
     order_status |-> result.status, order_id |-> result.order_id,
     final_outcome |-> None, exit_price |-> None, pnl_usd |-> None,
     roi_pct |-> None, settled |-> 0, settled_at |-> None]

IsDue_IgnoresSettled(row, now) == row.window_end < now

IsDue_IgnoresWindow(row, now) == row.settled = 0

\* SELECT ... WHERE settled = 0 AND datetime(window_end) < datetime(now)
IsDue(row, now) == row.settled = 0 /\ row.window_end < now

RECURSIVE SelectDue(_, _, _)
SelectDue(rows, now, i) ==
    IF i > Len(rows) THEN <<>>
    ELSE IF IsDue(rows[i], now) THEN <<i>> \o SelectDue(rows, now, i + 1)
    ELSE SelectDue(rows, now, i + 1)

\* exit_value * size in 1/1000000 USD
ExitValueUsd(exit_value, size) ==
    exit_value * (size \div 10000) + (exit_value * (size % 10000)) \div 10000

RoiPct_Fraction(pnl_usd, bet_usd) ==
    IF pnl_usd >= 0 THEN RoundDiv(pnl_usd, bet_usd)
    ELSE 0 - RoundDiv(0 - pnl_usd, bet_usd)

\* (pnl_usd / bet_usd) * 100 in 1/100 percent, to the nearest: pnl_usd is in
\* 1/1000000 USD and bet_usd in 1/10000 USD.  The whole multiples of the
\* stake are divided first.
RoiPct(pnl_usd, bet_usd) ==
    LET a == IF pnl_usd >= 0 THEN pnl_usd ELSE 0 - pnl_usd
        v == (a \div bet_usd) * 100 + RoundDiv(100 * (a % bet_usd), bet_usd)
    IN  IF pnl_usd >= 0 THEN v ELSE 0 - v

\* The values one iteration of the settlement loop computes (lines 446-460)
\* from the order book read for the row's token.
SettleValues(row, book) ==
    LET final_price ==
            IF book.bids # <<>> /\ book.asks # <<>>
            THEN (Last(book.bids) + Last(book.asks)) \div 2
            ELSE PRICE_ONE \div 2
        exit_value == IF Upper(row.side) \in {"UP", "YES"} THEN final_price
                      ELSE PRICE_ONE - final_price
        pnl_usd == ExitValueUsd(exit_value, row.size) - row.bet_usd * 100
        roi_pct == IF row.bet_usd > 0 THEN RoiPct(pnl_usd, row.bet_usd) ELSE 0
    IN  [final_price |-> final_price, pnl_usd |-> pnl_usd, roi_pct |-> roi_pct]

SettleUpdate_NoStamp(row, v, now) ==
    [row EXCEPT !.final_outcome = Some("PENDING"), !.exit_price = Some(v.final_price),
                !.pnl_usd = Some(v.pnl_usd), !.roi_pct = Some(v.roi_pct),
                !.settled = 1]

SettleUpdate_RewritesEntry(row, v, now) ==
    [row EXCEPT !.final_outcome = Some("PENDING"), !.exit_price = Some(v.final_price),
                !.pnl_usd = Some(v.pnl_usd), !.roi_pct = Some(v.roi_pct),
                !.settled = 1, !.settled_at = Some(now),
                !.entry_price = v.final_price]

\* UPDATE trades SET final_outcome, exit_price, pnl_usd, roi_pct, settled=1,
\* settled_at WHERE id = ? (lines 462-463)
SettleUpdate(row, v, now) ==
    [row EXCEPT !.final_outcome = Some("PENDING"), !.exit_price = Some(v.final_price),
                !.pnl_usd = Some(v.pnl_usd), !.roi_pct = Some(v.roi_pct),
                !.settled = 1, !.settled_at = Some(now)]

---------------------------------------------------------------------------
\* The inputs of the environment.

\* Order books, levels sorted worst to best.
UpBook == Book(<<5900, 6000>>, <<6400, 6200>>)
DownBook == Book(<<2900, 3000>>, <<3400, 3200>>)
FlatBook == Book(<<4900>>, <<5100>>)
WideBook == Book(<<4000>>, <<6200>>)
EmptyBook == Book(<<>>, <<>>)
ExitBook == Book(<<6900>>, <<7100>>)
ParBook == Book(<<10000>>, <<10000>>)

\* A run of the bot is checked in each of these environments.  markets is
\* MARKETS as parsed from the environment variable (lines 37-38: upper-cased,
\* in order, not deduplicated).  lookup gives, per entry of MARKETS, the
\* attempt of get_token_ids at which the lookup first answers with two token
\* ids (LOOKUP_ATTEMPTS + 1: never).  The other fields are the answers the
\* collaborators may give at each call: the order books read by
\* calculate_edge, the funding bias, the fear-and-greed index, the answer of
\* the BFXD trend filter, what the exchange client does
\* with an order, how long that call takes, whether the INSERT of save_trade
\* succeeds, the order books read by the settlement, whether the COMMIT
\* of the settlement succeeds, the number of windows of the run, and whether
\* generate_statistics returns.
OrdersEnv ==
    [markets |-> <<"BTC", "ETH">>, lookup |-> <<1, 1>>,
     edge_books |-> {FlatBook, UpBook}, fundings |-> {FeedValue(0), FeedError},
     sentiments |-> {FeedValue(NEUTRAL_SENTIMENT), FeedError},
     trends |-> {BfxdOff},
     order_outcomes |-> {"sign_error", "post_error", "no_resp", "live"},
     call_seconds |-> {0}, save_ok |-> {TRUE, FALSE},
     settle_books |-> {ExitBook}, commit_ok |-> {TRUE},
     windows |-> MaxWindows, report_ok |-> {TRUE}]

SettleEnv ==
    [markets |-> <<"BTC", "ETH">>, lookup |-> <<1, LOOKUP_ATTEMPTS>>,
     edge_books |-> {FlatBook, UpBook, DownBook}, fundings |-> {FeedValue(0)},
     sentiments |-> {FeedValue(NEUTRAL_SENTIMENT)}, trends |-> {BfxdOff},
     order_outcomes |-> {"live"},
     call_seconds |-> {0}, save_ok |-> {TRUE},
     settle_books |-> {BookError, EmptyBook, ExitBook}, commit_ok |-> {TRUE, FALSE},
     windows |-> MaxWindows, report_ok |-> {TRUE}]

TimingEnv ==
    [markets |-> <<"BTC", "BTC">>, lookup |-> <<1, 1>>,
     edge_books |-> {BookError, UpBook}, fundings |-> {FeedValue(0)},
     sentiments |-> {FeedValue(NEUTRAL_SENTIMENT)}, trends |-> {BfxdOff},
     order_outcomes |-> {"live"},
     call_seconds |-> {0, SlowCall}, save_ok |-> {TRUE},
     settle_books |-> {ExitBook}, commit_ok |-> {TRUE},
     windows |-> MaxWindows, report_ok |-> {TRUE}]

FilterEnv ==
    [markets |-> <<"ETH", "BTC">>, lookup |-> <<LOOKUP_ATTEMPTS + 1, 1>>,
     edge_books |-> {EmptyBook, WideBook, UpBook, DownBook}, fundings |-> {FeedValue(0)},
     sentiments |-> {FeedValue(NEUTRAL_SENTIMENT)},
     trends |-> {BfxdOff, BfxdError, BfxdTrend("UP"), BfxdTrend("down"),
                 BfxdTrend("FLAT")},
     order_outcomes |-> {"live"},
     call_seconds |-> {0}, save_ok |-> {TRUE},
     settle_books |-> {ExitBook}, commit_ok |-> {TRUE},
     windows |-> MaxWindows, report_ok |-> {TRUE}]

\* The funding rate moves between two reads, and a book at a price of 1.
FeedsEnv ==
    [markets |-> <<"SOL">>, lookup |-> <<1>>,
     edge_books |-> {UpBook, ParBook},
     fundings |-> {FeedValue(0), FeedValue(-600)},
     sentiments |-> {FeedValue(NEUTRAL_SENTIMENT)}, trends |-> {BfxdOff},
     order_outcomes |-> {"live"},
     call_seconds |-> {0}, save_ok |-> {TRUE},
     settle_books |-> {ExitBook}, commit_ok |-> {TRUE},
     windows |-> MaxWindows, report_ok |-> {TRUE}]

\* A run long enough for the report of every 16th cycle; an order book
\* whose best price is not a number, and a report that cannot be written.
ReportWindows == REPORT_EVERY + 1

ReportEnv ==
    [markets |-> <<"BTC", "ETH">>, lookup |-> <<1, 1>>,
     edge_books |-> {FlatBook, MalformedBook}, fundings |-> {FeedValue(0)},
     sentiments |-> {FeedValue(NEUTRAL_SENTIMENT)}, trends |-> {BfxdOff},
     order_outcomes |-> {"live"},
     call_seconds |-> {0}, save_ok |-> {TRUE},
     settle_books |-> {ExitBook}, commit_ok |-> {TRUE},
     windows |-> ReportWindows, report_ok |-> {TRUE, FALSE}]

Environments == {OrdersEnv, SettleEnv, TimingEnv, FilterEnv, FeedsEnv, ReportEnv}

---------------------------------------------------------------------------
\* The driver.

TsIdle == [stage |-> "idle"]

\* trade_symbol has returned: how the pass ended, and the ledger and the
\* orders submitted as they were when the pass began.
TsDone(why, before) == [stage |-> "done", why |-> why, before |-> before]
StIdle == [stage |-> "idle"]
ProbeIdle == [fn |-> "none"]

Init ==
    /\ env \in Environments
    /\ MARKETS = env.markets
    /\ clock = 0
    /\ pc = "wait"
    /\ cycle = 0
    /\ idx = 0
    /\ ts = TsIdle
    /\ st = StIdle
    /\ ledger = <<>>
    /\ calls = <<>>
    /\ applied = <<>>
    /\ probe = ProbeIdle

\* main, lines 626-635: sleep to the next boundary plus the delay.
Wait ==
    /\ pc = "wait"
    /\ clock + WaitSeconds(clock) <= Horizon
    /\ clock' = clock + WaitSeconds(clock) + WINDOW_DELAY_SEC
    /\ idx' = 1
    /\ pc' = IF MARKETS = <<>> THEN "settle" ELSE "trade"
    /\ UNCHANGED <<probe, MARKETS, env, cycle, ts, st, ledger, calls, applied>>

\* trade_symbol enters get_token_ids, which computes the slug once (line 212).
TradeBegin ==
    /\ pc = "trade"
    /\ ts' = [stage |-> "lookup", began |-> clock,
              before |-> [ledger |-> ledger, calls |-> calls],
              slug |-> get_current_slug(MARKETS[idx], clock),
              attempt |-> 1, usable_at |-> env.lookup[idx]]
    /\ pc' = "lookup"
    /\ UNCHANGED <<probe, MARKETS, env, clock, cycle, idx, st, ledger, calls, applied>>

LookupAttempt_SleepsAfterLast ==
    /\ pc = "lookup"
    /\ IF ts.attempt = ts.usable_at
       THEN /\ ts' = [stage |-> "found", began |-> ts.began,
                      before |-> ts.before, slug |-> ts.slug,
                      up_id |-> UpToken(ts.slug), down_id |-> DownToken(ts.slug)]
            /\ pc' = "edge"
            /\ clock' = clock
       ELSE IF ts.attempt < LOOKUP_ATTEMPTS
       THEN /\ ts' = [ts EXCEPT !.attempt = @ + 1]
            /\ pc' = "lookup"
            /\ clock' = clock + LOOKUP_SLEEP_SEC
       ELSE /\ ts' = TsDone("not_found", ts.before)
            /\ pc' = "next"
            /\ clock' = clock + LOOKUP_SLEEP_SEC
    /\ UNCHANGED <<probe, MARKETS, env, cycle, idx, st, ledger, calls, applied>>

\* One iteration of the loop of get_token_ids (lines 213-232).
LookupAttempt ==
    /\ pc = "lookup"
    /\ IF ts.attempt = ts.usable_at
       THEN /\ ts' = [stage |-> "found", began |-> ts.began,
                      before |-> ts.before, slug |-> ts.slug,
                      up_id |-> UpToken(ts.slug), down_id |-> DownToken(ts.slug)]
            /\ pc' = "edge"
            /\ clock' = clock
       ELSE IF ts.attempt < LOOKUP_ATTEMPTS
       THEN /\ ts' = [ts EXCEPT !.attempt = @ + 1]
            /\ pc' = "lookup"
            /\ clock' = clock + LOOKUP_SLEEP_SEC
       ELSE \* (None, None): trade_symbol logs "Market not found" and returns
            /\ ts' = TsDone("not_found", ts.before)
            /\ pc' = "next"
            /\ clock' = clock
    /\ UNCHANGED <<probe, MARKETS, env, cycle, idx, st, ledger, calls, applied>>

Signal_OrdersBeforePriceCheck ==
    /\ pc = "edge"
    /\ \E book \in env.edge_books, funding \in env.fundings,
          fg \in env.sentiments, trend \in env.trends :
          LET sig == calculate_edge(MARKETS[idx], book, funding, fg)
              dec == IF sig.raised THEN [side |-> "NONE", price |-> 0]
                     ELSE Decide(sig)
              args == OrderArgs(dec.price, BET_USD)
              skipped == \/ dec.side = "NONE"
                         \/ ~BfxdAllows(MARKETS[idx], dec.side, trend)
                         \/ args = None
          IN  /\ ~skipped => Len(calls) < MaxTrades
              /\ IF sig.raised
                 THEN /\ ts' = TsIdle
                      /\ pc' = "except"
                      /\ calls' = calls
                 ELSE IF skipped
                 THEN /\ ts' = TsDone(IF dec.side = "NONE" THEN "none"
                                      ELSE IF ~BfxdAllows(MARKETS[idx], dec.side, trend)
                                      THEN "veto" ELSE "price", ts.before)
                      /\ pc' = "next"
                      /\ calls' = IF dec.side # "NONE" /\ args = None
                                  THEN Append(calls, [pass |-> ts.began])
                                  ELSE calls
                 ELSE /\ ts' = [stage |-> "order", began |-> ts.began,
                                before |-> ts.before,
                                slug |-> ts.slug, up_id |-> ts.up_id,
                                down_id |-> ts.down_id, sig |-> sig,
                                bias |-> get_funding_bias(MARKETS[idx], funding).value,
                                dec |-> [token_id |-> IF dec.side = "UP" THEN ts.up_id
                                                      ELSE ts.down_id,
                                         side |-> dec.side, price |-> args[1].price,
                                         size |-> args[1].size,
                                         bet_usd |-> args[1].bet_usd]]
                      /\ pc' = "order"
                      /\ calls' = calls
    /\ UNCHANGED <<probe, MARKETS, env, clock, cycle, idx, st, ledger, applied>>

\* trade_symbol, lines 529-576: the signal, the decision, the trend filter,
\* the price check, the clamp and the sizing.
Signal ==
    /\ pc = "edge"
    /\ \E book \in env.edge_books, funding \in env.fundings,
          fg \in env.sentiments, trend \in env.trends :
          LET sig == calculate_edge(MARKETS[idx], book, funding, fg)
              dec == IF sig.raised THEN [side |-> "NONE", price |-> 0]
                     ELSE Decide(sig)
              args == OrderArgs(dec.price, BET_USD)
              skipped == \/ dec.side = "NONE"
                         \/ ~BfxdAllows(MARKETS[idx], dec.side, trend)
                         \/ args = None
          IN  /\ ~skipped => Len(calls) < MaxTrades
              /\ IF sig.raised
                 THEN /\ ts' = TsIdle
                      /\ pc' = "except"
                 ELSE IF skipped
                 THEN /\ ts' = TsDone(IF dec.side = "NONE" THEN "none"
                                      ELSE IF ~BfxdAllows(MARKETS[idx], dec.side, trend)
                                      THEN "veto" ELSE "price", ts.before)
                      /\ pc' = "next"
                 ELSE /\ ts' = [stage |-> "order", began |-> ts.began,
                                before |-> ts.before,
                                slug |-> ts.slug, up_id |-> ts.up_id,
                                down_id |-> ts.down_id, sig |-> sig,
                                bias |-> get_funding_bias(MARKETS[idx], funding).value,
                                dec |-> [token_id |-> IF dec.side = "UP" THEN ts.up_id
                                                      ELSE ts.down_id,
                                         side |-> dec.side, price |-> args[1].price,
                                         size |-> args[1].size,
                                         bet_usd |-> args[1].bet_usd]]
                      /\ pc' = "order"
    /\ UNCHANGED <<probe, MARKETS, env, clock, cycle, idx, st, ledger, calls, applied>>

\* trade_symbol, line 579: the one call of place_order.  calls records it:
\* the decision pass that made it (the time the pass began: passes are at
\* least SYMBOL_SLEEP_SEC apart), the slug and the token ids get_token_ids
\* returned, the signal and the funding bias calculate_edge added to its edge,
\* the arguments, the result, whether trade_symbol has returned since, and
\* the row save_trade wrote for it.
PlaceOrder ==
    /\ pc = "order"
    /\ \E outcome \in env.order_outcomes, secs \in env.call_seconds :
          LET r == place_order(outcome, Len(calls) + 1)
          IN  /\ secs > 0 => clock + secs <= Horizon
              /\ clock' = clock + secs
              /\ calls' = Append(calls, [pass |-> ts.began, slug |-> ts.slug,
                                         up_id |-> ts.up_id,
                                         down_id |-> ts.down_id,
                                         sig |-> ts.sig, bias |-> ts.bias,
                                         dec |-> ts.dec,
                                         result |-> r, returned |-> FALSE,
                                         row |-> None])
              /\ IF r.raised
                 THEN /\ ts' = TsIdle
                      /\ pc' = "except"
                 ELSE /\ ts' = [stage |-> "save", began |-> ts.began,
                                before |-> ts.before,
                                slug |-> ts.slug, sig |-> ts.sig,
                                dec |-> ts.dec, result |-> r]
                      /\ pc' = "save"
    /\ UNCHANGED <<probe, MARKETS, env, cycle, idx, st, ledger, applied>>

\* trade_symbol, lines 583-605: save_trade, or "Database error" logged.
\* The window, the slug and the funding bias are read again here.
SaveTrade ==
    /\ pc = "save"
    /\ \E funding \in env.fundings, db_ok \in env.save_ok :
          LET bias == get_funding_bias(MARKETS[idx], funding)
          IN
          IF db_ok /\ ~bias.raised
          THEN /\ ledger' = Append(ledger,
                        NewRow(clock, MARKETS[idx], get_window_times(clock),
                               get_current_slug(MARKETS[idx], clock),
                               ts.dec, ts.sig, bias.value, ts.result))
               /\ applied' = Append(applied, <<>>)
               /\ calls' = [calls EXCEPT ![Len(calls)].returned = TRUE,
                                         ![Len(calls)].row = Some(Len(ledger) + 1)]
          ELSE /\ UNCHANGED <<ledger, applied>>
               /\ calls' = [calls EXCEPT ![Len(calls)].returned = TRUE]
    /\ ts' = TsDone("order", ts.before)
    /\ pc' = "next"
    /\ UNCHANGED <<probe, MARKETS, env, clock, cycle, idx, st>>

\* main, lines 638-640: time.sleep(1), then the next symbol or the settlement.
NextSymbol ==
    /\ pc = "next"
    /\ clock' = clock + SYMBOL_SLEEP_SEC
    /\ IF idx < Len(MARKETS)
       THEN /\ idx' = idx + 1
            /\ pc' = "trade"
       ELSE /\ idx' = 0
            /\ pc' = "settle"
    /\ ts' = TsIdle
    /\ UNCHANGED <<probe, MARKETS, env, cycle, st, ledger, calls, applied>>

\* check_and_settle_trades, lines 426-438: read now once, select the due rows.
SettleSelect ==
    /\ pc = "settle"
    /\ LET unsettled == SelectDue(ledger, clock, 1)
       IN  IF unsettled = <<>>
           THEN /\ st' = StIdle
                /\ cycle' = (cycle + 1) % REPORT_EVERY
                /\ pc' = IF cycle' = 0 THEN "report" ELSE "wait"
           ELSE /\ \E books \in [1..Len(unsettled) -> env.settle_books] :
                      st' = [stage |-> "loop", now |-> clock, unsettled |-> unsettled,
                             books |-> books, k |-> 1, updates |-> <<>>]
                /\ cycle' = cycle
                /\ pc' = "settle_row"
    /\ UNCHANGED <<probe, MARKETS, env, clock, idx, ts, ledger, calls, applied>>

SettleIteration_Skip(s, rows) == [s EXCEPT !.k = @ + 1]

SettleIteration_Abort(s, rows) ==
    LET id == s.unsettled[s.k]
        book == s.books[s.k]
    IN  IF book.kind # "book"
        THEN [s EXCEPT !.k = Len(s.unsettled) + 1]
        ELSE [s EXCEPT !.k = @ + 1,
                       !.updates = Append(@,
                           [id |-> id,
                            usable |-> book.bids # <<>> /\ book.asks # <<>>,
                            row |-> SettleUpdate(rows[id],
                                        SettleValues(rows[id], book), s.now)])]

\* One iteration of the settlement loop (lines 440-470) on the frame s of the
\* pass.  s.books[k] is what the order book read for the k-th selected row
\* answers in this pass; updates are the UPDATEs executed in the open
\* transaction (usable: the book had a bid and an ask).  A read that raises
\* is logged by the except clause and the loop goes on.
SettleIteration(s, rows) ==
    LET id == s.unsettled[s.k]
        book == s.books[s.k]
    IN  IF book.kind # "book"
        THEN [s EXCEPT !.k = @ + 1]
        ELSE [s EXCEPT !.k = @ + 1,
                       !.updates = Append(@,
                           [id |-> id,
                            usable |-> book.bids # <<>> /\ book.asks # <<>>,
                            row |-> SettleUpdate(rows[id],
                                        SettleValues(rows[id], book), s.now)])]

SettleRow ==
    /\ pc = "settle_row"
    /\ \E secs \in env.call_seconds :
          /\ secs > 0 => clock + secs <= Horizon
          /\ clock' = clock + secs
    /\ st' = SettleIteration(st, ledger)
    /\ pc' = IF st'.k > Len(st'.unsettled) THEN "commit" ELSE "settle_row"
    /\ UNCHANGED <<probe, MARKETS, env, cycle, idx, ts, ledger, calls, applied>>

\* conn.commit() (line 472): the UPDATEs of the transaction, in order.
RECURSIVE Committed(_, _, _)
Committed(rows, updates, j) ==
    IF j > Len(updates) THEN rows
    ELSE Committed([rows EXCEPT ![updates[j].id] = updates[j].row], updates, j + 1)

RECURSIVE AppliedTo(_, _, _)
AppliedTo(id, updates, j) ==
    IF j > Len(updates) THEN <<>>
    ELSE (IF updates[j].id = id
          THEN <<[at |-> updates[j].row.settled_at, usable |-> updates[j].usable]>>
          ELSE <<>>) \o AppliedTo(id, updates, j + 1)

\* check_and_settle_trades, lines 472-476, and main, line 644.
SettleCommit ==
    /\ pc = "commit"
    /\ \E db_ok \in env.commit_ok :
          IF db_ok
          THEN /\ ledger' = Committed(ledger, st.updates, 1)
               /\ applied' = [i \in 1..Len(applied) |->
                                applied[i] \o AppliedTo(i, st.updates, 1)]
               /\ cycle' = (cycle + 1) % REPORT_EVERY
               /\ pc' = IF cycle' = 0 THEN "report" ELSE "wait"
          ELSE /\ UNCHANGED <<ledger, applied, cycle>>
               /\ pc' = "except"
    /\ st' = StIdle
    /\ UNCHANGED <<probe, MARKETS, env, clock, idx, ts, calls>>

\* main, lines 646-649: generate_statistics after every 16th cycle.  It
\* returns, or an exception leaves it (sqlite3.connect, the division by the
\* invested total, the write of the report file).
Report ==
    /\ pc = "report"
    /\ \E ok \in env.report_ok : pc' = IF ok THEN "wait" ELSE "except"
    /\ UNCHANGED <<probe, MARKETS, env, clock, cycle, idx, ts, st, ledger, calls, applied>>

Recover_Stops ==
    /\ pc = "except"
    /\ pc' = "stopped"
    /\ clock' = Min(clock + ERROR_SLEEP_SEC, LateTime)
    /\ idx' = 0
    /\ UNCHANGED <<probe, MARKETS, env, cycle, ts, st, ledger, calls, applied>>

\* main, lines 657-662: the exception is logged, the loop sleeps and goes on.
Recover ==
    /\ pc = "except"
    /\ clock' = Min(clock + ERROR_SLEEP_SEC, LateTime)
    /\ pc' = "wait"
    /\ idx' = 0
    /\ UNCHANGED <<probe, MARKETS, env, cycle, ts, st, ledger, calls, applied>>

\* The process ends (interrupt or kill): the open transaction is rolled back.
Terminate ==
    /\ pc # "stopped"
    /\ pc' = "stopped"
    /\ ts' = TsIdle
    /\ st' = StIdle
    /\ idx' = 0
    /\ UNCHANGED <<probe, MARKETS, env, clock, cycle, ledger, calls, applied>>

\* The bot is started again on the same database (main, lines 609-623).
Restart ==
    /\ pc = "stopped"
    /\ pc' = "wait"
    /\ cycle' = 0
    /\ UNCHANGED <<probe, MARKETS, env, clock, idx, ts, st, ledger, calls, applied>>

Running ==
    \/ Wait
    \/ TradeBegin
    \/ LookupAttempt
    \/ Signal
    \/ PlaceOrder
    \/ SaveTrade
    \/ NextSymbol
    \/ SettleSelect
    \/ SettleRow
    \/ SettleCommit
    \/ Report
    \/ Recover

Next ==
    \/ Running
    \/ Terminate
    \/ Restart

Spec == Init /\ [][Next]_vars

\* main, lines 626-644, in a cycle after the last window told apart: the
\* time is LateTime, every trade_symbol of the cycle returns without a trade
\* and the settlement pass follows.
LateCycle ==
    /\ pc = "wait"
    /\ clock + WaitSeconds(clock) > Horizon
    /\ clock' = LateTime
    /\ idx' = 0
    /\ pc' = "settle"
    /\ UNCHANGED <<probe, MARKETS, env, cycle, ts, st, ledger, calls, applied>>

KeepRunning == Running \/ LateCycle

\* A settlement pass in which every order book read answers.
ReadsAnswer ==
    /\ SettleSelect
    /\ st'.stage = "loop" => \A k \in DOMAIN st'.books : st'.books[k].kind # "error"

\* The commit of such a pass succeeds.
CommitsAnswered ==
    /\ SettleCommit
    /\ \A k \in DOMAIN st.books : st.books[k].kind # "error"
    /\ pc' # "except"

\* The driver is never stopped: main's while True (line 624) goes from one
\* step to the next, so every enabled step is taken (weak fairness).  The
\* order book reads eventually answer and the database eventually accepts the
\* commit, again and again (strong fairness: they may also fail again and
\* again).
FairSpec ==
    /\ Init
    /\ [][KeepRunning]_vars
    /\ WF_vars(KeepRunning)
    /\ SF_vars(ReadsAnswer)
    /\ SF_vars(CommitsAnswered)

---------------------------------------------------------------------------
\* The functions of the bot, each applied once to inputs drawn from a grid.
\* probe holds the function applied, its inputs and, once applied, <<result>>.

\* Edges k * EdgeStep and their neighbours, k in 0..EdgeSteps.
EdgeSteps == 1000
EdgeStep == EDGE_ONE \div 1000

ProbeEdges ==
    {e \in {k * EdgeStep + d : k \in 0..EdgeSteps, d \in {-1, 0, 1}} : e >= 0}

ProbeMids == {0, PRICE_MIN, 3900, PRICE_ONE \div 2, 6100, PRICE_MAX, PRICE_ONE}

DecideInputs ==
    {[fn |-> "decide", in |-> [edge |-> e, p_up |-> m], out |-> None] :
        e \in ProbeEdges, m \in ProbeMids}

\* Prices of a decision: the multiples of PriceStep (half a tick of 0.001) up
\* to PriceSteps of them, prices next to the bounds of the clamp, and the
\* prices 0 and -0.01 of a DOWN decision on a mid price of 1 and of 1.01.
PriceSteps == 2000
PriceStep == PRICE_ONE \div 2000

ProbePrices ==
    {k * PriceStep : k \in 1..PriceSteps}
        \cup {0 - PRICE_MIN, 0, 1, PRICE_MIN - 1, PRICE_MAX + 1}

\* Configured stakes BET_USD: the default, 0.0001 USD and the multiples of
\* StakeStep (0.25 USD).
StakeSteps == 20
StakeStep == PRICE_ONE \div 4

ProbeStakes == {k * StakeStep : k \in 1..StakeSteps} \cup {1, BET_USD}

OrderInputs ==
    {[fn |-> "order_args", in |-> [price |-> p, stake |-> s], out |-> None] :
        p \in ProbePrices, s \in ProbeStakes}

ProbeTrends == {"", "UP", "DOWN", "up", "down", "FLAT", "None"}

BfxdAnswers ==
    {BfxdOff, BfxdError, BfxdNotObject} \cup {BfxdTrend(t) : t \in ProbeTrends}

BfxdInputs ==
    {[fn |-> "bfxd", in |-> [symbol |-> m, side |-> d, answer |-> a], out |-> None] :
        m \in {"BTC", "ETH"}, d \in {"UP", "DOWN"}, a \in BfxdAnswers}

\* Order books of one level a side on the 0.01 tick: bids of 0 to BookSteps
\* ticks, asks ProbeSpreads ticks above the bid; and the books of the driver,
\* a book with one side only, no book, and a book without numbers.
BookSteps == 100
BookTick == PRICE_ONE \div 100

ProbeSpreads == {-1, 0, 1, 2, 14, 15, 16, 22}

ProbeBooks ==
    UNION {{Book(<<b * BookTick>>, <<(b + d) * BookTick>>) :
                d \in {x \in ProbeSpreads : b + x >= 0}} : b \in 0..BookSteps}
        \cup {BookError, MalformedBook, EmptyBook, Book(<<4900>>, <<>>),
              Book(<<>>, <<5100>>), UpBook, DownBook}

\* Funding rates of 0, 0.004 %, -0.0065 % and 0.01 %, or no answer.
ProbeFundings == {FeedError} \cup {FeedValue(r) : r \in {0, 40, -65, 100}}

ProbeSentiments ==
    {FeedError} \cup {FeedValue(v) : v \in {FEAR_BELOW - 1, FEAR_BELOW,
                          NEUTRAL_SENTIMENT, GREED_ABOVE, GREED_ABOVE + 1}}

SignalInputs ==
    {[fn |-> "signal",
      in |-> [symbol |-> m, book |-> b, funding |-> f, fg |-> g],
      out |-> None] :
        m \in {"BTC", "DOGE"}, b \in ProbeBooks, f \in ProbeFundings,
        g \in ProbeSentiments}

\* Rows to settle: sizes of 1 to SizeSteps shares and two sizes the sizing
\* gives, stakes of 0.0001, 1.10, 3.05 and 6 USD; and the books read for
\* them: one level a side, the ask 0.02 above the bid, or a side missing.
SizeSteps == 10
SizeStep == MIN_SIZE \div 5

ProbeSizes == {k * SizeStep : k \in 1..SizeSteps} \cup {1803279, 5000000}

SettleInputs ==
    {[fn |-> "settle",
      in |-> [row |-> [side |-> d, size |-> z, bet_usd |-> u], book |-> b],
      out |-> None] :
        d \in {"UP", "DOWN"}, z \in ProbeSizes, u \in {1, BET_USD, 30500, 60000},
        b \in {Book(<<k * BookTick>>, <<(k + 2) * BookTick>>) : k \in 0..BookSteps}
                \cup {EmptyBook, Book(<<4900>>, <<>>)}}

\* The slug is computed at every second of the first SlugSeconds seconds,
\* which hold the end of daylight time and the repeated hour.
SlugSeconds == 10800

SlugInputs ==
    {[fn |-> "slug", in |-> [symbol |-> m, t |-> 0], out |-> None] :
        m \in {"BTC", "ETH"}}

\* The clock readings of ClockSeconds seconds (every minute and second of an
\* hour) and settings of WINDOW_DELAY_SEC around the limits of lines 32-35.
ClockSeconds == 3600

WaitInputs ==
    {[fn |-> "wait", in |-> [t |-> t, raw_delay |-> d], out |-> None] :
        t \in 0..ClockSeconds, d \in {-1, 0, WINDOW_DELAY_SEC, 299, 300, 301, 900}}

FunctionInit ==
    /\ MARKETS = <<>>
    /\ env = [markets |-> <<>>]
    /\ clock = 0
    /\ pc = "stopped"
    /\ cycle = 0
    /\ idx = 0
    /\ ts = TsIdle
    /\ st = StIdle
    /\ ledger = <<>>
    /\ calls = <<>>
    /\ applied = <<>>
    /\ \/ probe \in DecideInputs
       \/ probe \in OrderInputs
       \/ probe \in BfxdInputs
       \/ probe \in SignalInputs
       \/ probe \in SettleInputs
       \/ probe \in SlugInputs
       \/ probe \in WaitInputs

Driver == <<MARKETS, env, clock, pc, cycle, idx, ts, st, ledger, calls, applied>>

\* trade_symbol, lines 533-540, on the edge and the mid price of the signal.
ApplyDecide ==
    /\ probe.fn = "decide"
    /\ probe.out = None
    /\ probe' = [probe EXCEPT !.out = Some(Decide(probe.in))]
    /\ UNCHANGED Driver

\* trade_symbol, lines 547-564, on the price of the decision.
ApplyOrderArgs ==
    /\ probe.fn = "order_args"
    /\ probe.out = None
    /\ probe' = [probe EXCEPT !.out = Some(OrderArgs(probe.in.price, probe.in.stake))]
    /\ UNCHANGED Driver

\* trade_symbol, line 543: bfxd_allows_trade(symbol, side).
ApplyBfxd ==
    /\ probe.fn = "bfxd"
    /\ probe.out = None
    /\ probe' = [probe EXCEPT
                    !.out = Some(BfxdAllows(probe.in.symbol, probe.in.side,
                                            probe.in.answer))]
    /\ UNCHANGED Driver

\* trade_symbol, lines 529-540: calculate_edge and the decision on its result.
ApplySignal ==
    /\ probe.fn = "signal"
    /\ probe.out = None
    /\ LET sig == calculate_edge(probe.in.symbol, probe.in.book,
                                  probe.in.funding, probe.in.fg)
       IN  probe' = [probe EXCEPT
                        !.out = Some([sig |-> sig,
                                      dec |-> IF sig.raised THEN None
                                              ELSE Some(Decide(sig))])]
    /\ UNCHANGED Driver

\* check_and_settle_trades, lines 446-460, on one row and the book read.
ApplySettle ==
    /\ probe.fn = "settle"
    /\ probe.out = None
    /\ probe' = [probe EXCEPT
                    !.out = Some(SettleValues(probe.in.row, probe.in.book))]
    /\ UNCHANGED Driver

\* get_current_slug(symbol) called at the instant probe.in.t.
ApplySlug ==
    /\ probe.fn = "slug"
    /\ probe.out = None
    /\ probe' = [probe EXCEPT
                    !.out = Some(get_current_slug(probe.in.symbol, probe.in.t))]
    /\ UNCHANGED Driver

\* A second passes and get_current_slug(symbol) is called again.
ApplySlugAgain ==
    /\ probe.fn = "slug"
    /\ probe.out # None
    /\ probe.in.t < SlugSeconds
    /\ probe' = [probe EXCEPT
                    !.in.t = @ + 1,
                    !.out = Some(get_current_slug(probe.in.symbol, probe.in.t + 1))]
    /\ UNCHANGED Driver

\* main, lines 626-633, at the clock reading probe.in.t: the wait, the delay
\* and the time at which the sleep ends.
ApplyWait ==
    /\ probe.fn = "wait"
    /\ probe.out = None
    /\ LET wait == WaitSeconds(probe.in.t)
           delay == ClampDelay(probe.in.raw_delay)
       IN  probe' = [probe EXCEPT
                        !.out = Some([wait |-> wait, delay |-> delay,
                                      wakes |-> probe.in.t + wait + delay])]
    /\ UNCHANGED Driver

FunctionNext ==
    \/ ApplyWait
    \/ ApplySlug
    \/ ApplySlugAgain
    \/ ApplySettle
    \/ ApplySignal
    \/ ApplyDecide
    \/ ApplyBfxd
    \/ ApplyOrderArgs

FunctionSpec == FunctionInit /\ [][FunctionNext]_vars

---------------------------------------------------------------------------
\* Properties.

\* C15: get_token_ids makes at most 12 attempts, 4 seconds apart with no
\* sleep after the last, and returns the tokens of the first usable answer
\* or (None, None); on (None, None) trade_symbol returns and the cycle goes
\* on with the next symbol.
C15_BoundedLookup ==
    /\ [](pc = "lookup" =>
            /\ ts.attempt \in 1..12
            /\ clock = ts.began + 4 * (ts.attempt - 1))
    /\ [][(pc = "lookup" /\ pc' \notin {"lookup", "stopped"}) =>
            /\ clock' = clock
            /\ idx' = idx
            /\ \/ /\ pc' = "edge"
                  /\ ts.attempt = ts.usable_at
                  /\ ts'.up_id = UpToken(ts.slug)
                  /\ ts'.down_id = DownToken(ts.slug)
               \/ /\ pc' = "next"
                  /\ ts.attempt = 12
                  /\ ts.usable_at > 12]_vars

\* The first symbol was not found after 12 attempts (44 seconds of sleep)
\* and the second symbol of the cycle has its tokens.
C15_Witness ==
    /\ pc = "edge"
    /\ idx = 2
    /\ env.lookup[1] > 12
    /\ ts.began = WINDOW_SEC + WINDOW_DELAY_SEC + 44 + SYMBOL_SLEEP_SEC

Applied(fn) == probe.fn = fn /\ probe.out # None

Rows == 1..Len(ledger)

\* C1: after any sequence of driver cycles the ledger holds at most one
\* Trade for every (symbol, window slug) pair.
C1_OneTradePerWindow ==
    \A i, j \in Rows :
        (ledger[i].symbol = ledger[j].symbol /\ ledger[i].slug = ledger[j].slug)
            => i = j

InPass == st.stage = "loop"

\* The rows of the ledger and those the open transaction has written.
LifecycleOk(row) ==
    /\ row.settled \in {0, 1}
    /\ row.settled_at # None <=> row.settled = 1

\* C2: the settled flag of a Trade only goes from 0 to 1, never back, and in
\* every state settled_at is set if and only if settled = 1.
C2_SettledMonotone ==
    /\ [](/\ \A i \in Rows : LifecycleOk(ledger[i])
          /\ InPass => \A u \in 1..Len(st.updates) : LifecycleOk(st.updates[u].row))
    /\ [][\A i \in Rows : ledger[i].settled = 1 => ledger'[i].settled = 1]_vars

\* A trade is SETTLED while another is still OPEN.
C2_Witness ==
    \E i, j \in Rows : ledger[i].settled = 1 /\ ledger[j].settled = 0

\* C3: a trade is never marked SETTLED with missing data: when the order
\* book read for a due trade yields no usable best bid and best ask, the
\* trade stays OPEN with its settlement columns unset.
C3_NoSettleOnMissingData ==
    [][(pc = "commit" /\ pc' = "wait") =>
          \A k \in 1..Len(st.unsettled) :
              (\/ st.books[k].kind = "error"
               \/ st.books[k].bids = <<>>
               \/ st.books[k].asks = <<>>) =>
                  LET row == ledger'[st.unsettled[k]]
                  IN  /\ row.settled = 0
                      /\ row.exit_price = None
                      /\ row.pnl_usd = None
                      /\ row.roi_pct = None
                      /\ row.settled_at = None]_vars

SettlementOf(row) ==
    <<row.final_outcome, row.exit_price, row.pnl_usd, row.roi_pct, row.settled_at>>

\* C4: once a Trade is SETTLED, no later step (a later settlement pass, or
\* one run after a restart) changes its exit_price, pnl_usd, roi_pct or
\* settled_at.
C4_SettlementIdempotent ==
    [][\A i \in Rows :
          ledger[i].settled = 1 => SettlementOf(ledger'[i]) = SettlementOf(ledger[i])]_vars

\* A pass started after a restart commits while an earlier pass has settled
\* a trade.
C4_Witness ==
    /\ pc = "commit"
    /\ cycle = 0
    /\ \E i \in Rows : ledger[i].settled = 1 /\ ledger[i].settled_at[1] < st.now

C7_SelectionExact ==
    InPass =>
        /\ SeqToSet(st.unsettled) =
              {i \in Rows : ledger[i].settled = 0 /\ ledger[i].window_end < st.now}
        /\ \A a, b \in 1..Len(st.unsettled) : st.unsettled[a] = st.unsettled[b] => a = b
        /\ st.now <= clock
        /\ \A u \in 1..Len(st.updates) :
              /\ \E k \in 1..(st.k - 1) : st.unsettled[k] = st.updates[u].id
              /\ st.updates[u].row.settled_at = Some(st.now)

\* A pass processes a trade while another trade's window has not ended.
C7_Witness ==
    /\ InPass
    /\ st.updates # <<>>
    /\ \E j \in Rows : ledger[j].settled = 0 /\ ledger[j].window_end >= st.now

\* C8: when a pass ends, every trade it selected whose own order book read
\* answered is SETTLED, whatever happened to the other trades of the pass.
C8_IsolatedFailures ==
    [][(pc = "commit" /\ pc' = "wait") =>
          \A k \in 1..Len(st.unsettled) :
              st.books[k].kind # "error" => ledger'[st.unsettled[k]].settled = 1]_vars

\* A pass has settled a trade after the read for an earlier due trade failed.
C8_Witness ==
    \E i, j \in Rows :
        /\ j < i
        /\ ledger[i].settled = 1
        /\ ledger[j].settled = 0
        /\ ledger[j].window_end < ledger[i].settled_at[1]

CallIds == 1..Len(calls)

\* C9: every submission attempt of trade_symbol, accepted or rejected, has
\* exactly one Trade in the ledger, whose order_status is the status
\* place_order returned.
C9_EverySubmissionRecorded ==
    /\ \A c \in CallIds :
          calls[c].returned =>
              /\ calls[c].row # None
              /\ ledger[calls[c].row[1]].order_status = calls[c].result.status
    /\ \A c, d \in CallIds :
          (calls[c].row # None /\ calls[c].row = calls[d].row) => c = d

\* C10: place_order posts at most once per call and never raises, a failed
\* submission is returned as {success: False, status: ERROR, order_id: None},
\* and a decision pass calls place_order at most once.
C10_SingleAttempt ==
    /\ \A c \in CallIds :
          /\ calls[c].result.posts <= 1
          /\ ~calls[c].result.raised
          /\ ~calls[c].result.success =>
                calls[c].result.status = "ERROR" /\ calls[c].result.order_id = None
    /\ \A c, d \in CallIds : calls[c].pass = calls[d].pass => c = d

\* The client raised in post_order and trade_symbol went on to save_trade.
C10_Witness ==
    /\ pc = "save"
    /\ ts.result.posts = 1
    /\ ~ts.result.success

\* C11: the decision is UP at the mid price exactly when edge >= MIN_EDGE,
\* DOWN at 1 - mid exactly when edge <= 1 - MIN_EDGE and NONE otherwise; with
\* MIN_EDGE = 0.565 every edge strictly between 0.435 and 0.565 gives NONE.
C11_DecisionRule ==
    Applied("decide") =>
        LET e == probe.in.edge
            d == probe.out[1]
        IN  /\ d.side \in {"UP", "DOWN", "NONE"}
            /\ d.side = "UP" <=> e >= MIN_EDGE
            /\ d.side = "UP" => d.price = probe.in.p_up
            /\ d.side = "DOWN" <=> e <= EDGE_ONE - MIN_EDGE
            /\ d.side = "DOWN" => d.price = PRICE_ONE - probe.in.p_up
            /\ (43500 < e /\ e < 56500) => d.side = "NONE"

\* An edge of 0.565 exactly is decided UP at the mid price 0.61.
C11_Witness ==
    /\ Applied("decide")
    /\ probe.in.edge = 56500
    /\ probe.in.p_up = 6100
    /\ probe.out[1] = [side |-> "UP", price |-> 6100]

Ordered == Applied("order_args") /\ probe.out[1] # None

\* C12: when stake / price is below 5 the size is exactly 5 and the stake
\* recorded is 5 * price (to 4 places); otherwise the size is stake / price
\* (to 6 places) and the stake recorded is the configured stake.
C12_SizingFloor ==
    Ordered =>
        LET o == probe.out[1][1]
            stake == probe.in.stake
            whole == o.size \div 1000000
            left == stake - whole * o.price
            thousandths == (o.size % 1000000) \div 1000
            rest == thousandths * o.price - left * 1000
            err == rest * 1000 + (o.size % 1000) * o.price
        IN  IF stake < 5 * o.price
            THEN o.size = 5000000 /\ o.bet_usd = 5 * o.price
            ELSE /\ o.bet_usd = stake
                 /\ left >= 0 /\ left <= o.price
                 /\ rest >= 0 - o.price /\ rest <= o.price
                 /\ 2 * err <= o.price /\ 2 * err >= 0 - o.price

\* The default stake 1.1 at price 0.61: size 5, stake recorded 3.05.
C12_Witness ==
    /\ Ordered
    /\ probe.in = [price |-> 6100, stake |-> BET_USD]
    /\ probe.out[1][1] = [price |-> 6100, size |-> 5000000, bet_usd |-> 30500]

\* C13: every order has its price in [0.01, 0.99] and its size >= 5.
C13_OrderBounds ==
    Ordered =>
        /\ probe.out[1][1].price >= 100
        /\ probe.out[1][1].price <= 9900
        /\ probe.out[1][1].size >= 5000000

\* A DOWN decision on a mid price of 0.9995 is ordered at 0.01.
C13_Witness ==
    /\ Ordered
    /\ probe.in.price = PriceStep
    /\ probe.out[1][1].price = 100

Signalled == Applied("signal")

\* The feed answer that stands for a failed fetch.
OrDefault(answer, default) ==
    IF answer.kind = "error" THEN FeedValue(default) ELSE answer

DegradedBook(book) ==
    \/ book.kind = "error"
    \/ /\ book.kind = "book"
       /\ \/ book.bids = <<>>
          \/ book.asks = <<>>
          \/ Last(book.asks) - Last(book.bids) > 1500

\* C17 as stated: on an order book that is unavailable, lacks bids or asks
\* or is wider than MAX_SPREAD, calculate_edge returns a mid price of 0.5, an
\* imbalance of zero and an edge of 0.5, and the decision is NONE.
C17_DegradedZeroImbalance ==
    (Signalled /\ DegradedBook(probe.in.book)) =>
        LET out == probe.out[1]
        IN  /\ ~out.sig.raised
            /\ out.sig.p_up = 5000
            /\ out.sig.imbalance = 0
            /\ out.sig.edge = 50000
            /\ out.dec = Some([side |-> "NONE", price |-> 0])

\* C17: on an order book that is unavailable, lacks bids or asks or is wider
\* than MAX_SPREAD, calculate_edge returns the neutral result whatever the
\* feeds say: a mid price of 0.5, an imbalance of 0.5 (the normalised value
\* of a raw imbalance of zero) and the edge 0.5 those two give; and the
\* decision is NONE.
C17_DegradedIsNeutral ==
    (Signalled /\ DegradedBook(probe.in.book)) =>
        LET out == probe.out[1]
        IN  /\ ~out.sig.raised
            /\ out.sig.p_up = 5000
            /\ out.sig.imbalance = 5000
            /\ out.sig.edge = 50000
            /\ out.sig.edge = 7 * out.sig.p_up + 3 * out.sig.imbalance
            /\ out.sig.reason # "OK"
            /\ out.dec = Some([side |-> "NONE", price |-> 0])

\* Bid 0.40 and ask 0.62, a spread of 0.22, with a funding rate and extreme
\* fear: neutral and NONE.
C17_Witness ==
    /\ Signalled
    /\ probe.in = [symbol |-> "BTC", book |-> Book(<<4000>>, <<6200>>),
                   funding |-> FeedValue(100), fg |-> FeedValue(29)]
    /\ probe.out[1].sig.edge = 50000
    /\ probe.out[1].sig.imbalance = 5000
    /\ probe.out[1].dec[1].side = "NONE"

\* C18: for every book that calculate_edge does not degrade, the mid price
\* is (best_bid + best_ask) / 2, the imbalance is
\* clamp((best_bid - (1 - best_ask) + 0.1) / 0.2, 0, 1), and the edge is
\* 0.7 * mid + 0.3 * imbalance + bias, plus 0.03 for a sentiment below 30 and
\* minus 0.03 for a sentiment above 70, with the bias 1000 times the funding
\* rate of a symbol that has a funding pair.
C18_EdgeFormula ==
    (Signalled /\ probe.in.book.kind = "book"
        /\ ~DegradedBook(probe.in.book)
        /\ Last(probe.in.book.bids) # 0 /\ Last(probe.in.book.asks) # 0) =>
        LET sig == probe.out[1].sig
            bid == Last(probe.in.book.bids)
            ask == Last(probe.in.book.asks)
            scaled == 5 * (bid - (10000 - ask) + 1000)
            imbalance == IF scaled < 0 THEN 0
                         ELSE IF scaled > 10000 THEN 10000 ELSE scaled
            bias == IF /\ probe.in.symbol \in {"BTC", "ETH", "XRP", "SOL"}
                       /\ probe.in.funding.kind = "value"
                    THEN 100 * probe.in.funding.value ELSE 0
            fg == IF probe.in.fg.kind = "value" THEN probe.in.fg.value ELSE 50
            adjust == IF fg < 30 THEN 3000 ELSE IF fg > 70 THEN 0 - 3000 ELSE 0
        IN  /\ ~sig.raised
            /\ sig.reason = "OK"
            /\ 2 * sig.p_up = bid + ask
            /\ sig.imbalance = imbalance
            /\ sig.edge = 7 * sig.p_up + 3 * imbalance + bias + adjust
            /\ sig.best_bid = Some(bid)
            /\ sig.best_ask = Some(ask)

\* Bid 0.60, ask 0.62, bias 0 and sentiment 50: mid 0.61, imbalance 1.0, edge
\* 0.727 and UP at 0.61.
C18_Witness ==
    /\ Signalled
    /\ probe.in = [symbol |-> "BTC", book |-> Book(<<6000>>, <<6200>>),
                   funding |-> FeedValue(0), fg |-> FeedValue(50)]
    /\ probe.out[1].sig.p_up = 6100
    /\ probe.out[1].sig.imbalance = 10000
    /\ probe.out[1].sig.edge = 72700
    /\ probe.out[1].dec = Some([side |-> "UP", price |-> 6100])

\* C19: a row settled on a book with a bid and an ask gets, with mid the
\* mean of the best bid and the best ask, the exit value mid for side UP and
\* 1 - mid otherwise, pnl_usd = exit value * size - stake (to 0.000001 USD)
\* and roi_pct = pnl_usd / stake * 100 (to the nearest 0.01 percent).
C19_SettlementMath ==
    (Applied("settle") /\ probe.in.book.bids # <<>> /\ probe.in.book.asks # <<>>) =>
        LET out == probe.out[1]
            row == probe.in.row
            bid == Last(probe.in.book.bids)
            ask == Last(probe.in.book.asks)
            exit2 == IF row.side = "UP" THEN bid + ask ELSE 20000 - (bid + ask)
            whole == row.size \div 10000
            part == row.size % 10000
            \* 2 * exit value * size - 2 * (pnl + stake), in 1/10^10 USD, less
            \* the whole hundredths of a share
            rest == exit2 * part - 20000 * (out.pnl_usd + 100 * row.bet_usd
                                               - (exit2 \div 2) * whole)
            miss == out.roi_pct * row.bet_usd - 100 * out.pnl_usd
        IN  /\ 2 * out.final_price = bid + ask
            /\ exit2 % 2 = 0
            /\ rest >= 0
            /\ rest < 20000
            /\ 2 * miss <= row.bet_usd
            /\ 0 - row.bet_usd <= 2 * miss

\* Side UP, size 10, stake 6 USD and a mid of 0.70: pnl 1.00 USD and roi
\* 16.67 percent.
C19_Witness ==
    /\ Applied("settle")
    /\ probe.in = [row |-> [side |-> "UP", size |-> 10000000, bet_usd |-> 60000],
                   book |-> Book(<<6900>>, <<7100>>)]
    /\ probe.out[1] = [final_price |-> 7000, pnl_usd |-> 1000000, roi_pct |-> 1667]

\* C20: the slug get_current_slug returns is made of the lower-cased symbol
\* and of the UTC instant at which the 15-minute interval of the query time
\* starts, and of nothing else; so two calls a second apart return the same
\* slug when they fall in the same interval and different slugs when they do
\* not, and so do any two calls.
C20_SlugPerWindow ==
    /\ [](Applied("slug") =>
            /\ probe.out[1][3] = 900 * (probe.in.t \div 900)
            /\ probe.out[1][1] = (IF probe.in.symbol = "BTC" THEN "btc" ELSE "eth")
            /\ probe.out[1][2] = "updown-15m")
    /\ [][(Applied("slug") /\ probe'.in.t = probe.in.t + 1) =>
            IF probe'.in.t \div 900 = probe.in.t \div 900
            THEN probe'.out = probe.out
            ELSE probe'.out # probe.out]_vars

\* The slug in the repeated hour after the end of daylight time, 29 seconds
\* before the end of an interval.
C20_Witness ==
    /\ Applied("slug")
    /\ probe.in.t = DstEnd + 2 * 900 - 29
    /\ probe.out[1] = <<"btc", "updown-15m", DstEnd + 900>>

\* C29: at every clock reading the wait of the main loop is between 1 and
\* 900 seconds and ends on a 15-minute boundary; WINDOW_DELAY_SEC is within
\* 0..300, so the sleep ends that many seconds after the boundary and in the
\* window that starts at it.
C29_WaitToBoundary ==
    Applied("wait") =>
        LET out == probe.out[1]
            boundary == probe.in.t + out.wait
        IN  /\ out.wait >= 1
            /\ out.wait <= 900
            /\ boundary % 900 = 0
            /\ out.delay >= 0
            /\ out.delay <= 300
            /\ (probe.in.raw_delay \in 0..300) => out.delay = probe.in.raw_delay
            /\ out.wakes = boundary + out.delay
            /\ out.wakes \div 900 = boundary \div 900

\* At minute 44, second 59 the wait is 1 second; a delay set to 301 is 300.
C29_Witness ==
    /\ Applied("wait")
    /\ probe.in = [t |-> 44 * 60 + 59, raw_delay |-> 301]
    /\ probe.out[1] = [wait |-> 1, delay |-> 300, wakes |-> 45 * 60 + 300]

\* C25: every result that calculate_edge computes from the book, without
\* degrading it, has best_bid <= best_ask, and so has the decision taken on it.
C25_NeverCrossed ==
    (Signalled /\ ~probe.out[1].sig.raised /\ probe.out[1].sig.reason = "OK") =>
        probe.out[1].sig.best_bid[1] <= probe.out[1].sig.best_ask[1]

FullyOpen(row) ==
    /\ row.settled = 0
    /\ row.exit_price = None
    /\ row.pnl_usd = None
    /\ row.roi_pct = None
    /\ row.settled_at = None

FullySettled(row) ==
    /\ row.settled = 1
    /\ row.exit_price # None
    /\ row.pnl_usd # None
    /\ row.roi_pct # None
    /\ row.settled_at # None

\* C22: in every state, also after the process was ended in the middle of a
\* decision pass or of a settlement pass, every row of the ledger is fully
\* OPEN or fully SETTLED.
C22_RowsWhole ==
    \A i \in Rows : FullyOpen(ledger[i]) \/ FullySettled(ledger[i])

\* The process was ended and left a settled trade and a trade that is OPEN
\* although its window is over.
C22_Witness ==
    /\ pc = "stopped"
    /\ \E i, j \in Rows :
          /\ FullySettled(ledger[i])
          /\ FullyOpen(ledger[j])
          /\ ledger[j].window_end < clock

\* The columns save_trade fills.
EntryOf(row) ==
    <<row.timestamp, row.symbol, row.window_start, row.window_end, row.slug,
      row.token_id, row.side, row.edge, row.entry_price, row.size, row.bet_usd,
      row.p_yes, row.best_bid, row.best_ask, row.imbalance, row.funding_bias,
      row.order_status, row.order_id>>

\* C23: no step removes a row or changes a column that save_trade filled; a
\* step that changes a row takes it from OPEN to SETTLED; and a row is
\* changed by one committed UPDATE at most, the one that settled it.
C23_EntryImmutable ==
    /\ [](\A i \in Rows :
            /\ Len(applied[i]) <= 1
            /\ ledger[i].settled = 1 <=> Len(applied[i]) = 1)
    /\ [][/\ Len(ledger') >= Len(ledger)
          /\ \A i \in Rows :
                /\ EntryOf(ledger'[i]) = EntryOf(ledger[i])
                /\ ledger'[i] # ledger[i] =>
                      /\ FullyOpen(ledger[i])
                      /\ FullySettled(ledger'[i])
                      /\ Len(applied'[i]) = Len(applied[i]) + 1]_vars

\* A trade bought at 0.61 is settled at 0.70 and keeps its entry price.
C23_Witness ==
    \E i \in Rows :
        /\ ledger[i].settled = 1
        /\ ledger[i].entry_price = 6100
        /\ ledger[i].exit_price = Some(7000)
        /\ Len(applied[i]) = 1


\* C28: in every call of place_order the side, the token and the price go
\* together: UP with the first token id get_token_ids resolved for the slug
\* and the mid price clamped to [0.01, 0.99], DOWN with the second token id
\* and one minus the mid price clamped to the same range; and the row saved
\* for the call stores the side, the token id, the price and the size that
\* were passed to place_order.
C28_SideTokenPrice ==
    \A c \in 1..Len(calls) :
        LET d == calls[c].dec
            mid == calls[c].sig.p_up
            own == IF d.side = "UP" THEN mid ELSE PRICE_ONE - mid
        IN  /\ d.side \in {"UP", "DOWN"}
            /\ calls[c].up_id = <<calls[c].slug, "UP">>
            /\ calls[c].down_id = <<calls[c].slug, "DOWN">>
            /\ d.side = "UP" <=> d.token_id = calls[c].up_id
            /\ d.side = "DOWN" <=> d.token_id = calls[c].down_id
            /\ d.price = (IF own < 100 THEN 100 ELSE IF own > 9900 THEN 9900 ELSE own)
            /\ calls[c].row # None =>
                   LET row == ledger[calls[c].row[1]]
                   IN  /\ row.side = d.side
                       /\ row.token_id = d.token_id
                       /\ row.entry_price = d.price
                       /\ row.size = d.size

\* An UP row and a DOWN row, the UP one bought at the clamped price.
C28_Witness ==
    /\ C28_SideTokenPrice
    /\ \E c1, c2 \in 1..Len(calls) :
          /\ calls[c1].row # None /\ calls[c2].row # None
          /\ ledger[calls[c1].row[1]].side = "UP"
          /\ calls[c1].sig.p_up > PRICE_MAX
          /\ ledger[calls[c1].row[1]].entry_price = PRICE_MAX
          /\ ledger[calls[c2].row[1]].side = "DOWN"
          /\ ledger[calls[c2].row[1]].entry_price = PRICE_ONE - calls[c2].sig.p_up


\* C26: the slug, window_start and window_end stored with a trade are those
\* of the market that was traded: the slug get_token_ids looked up for the
\* order, its window start and that start plus 15 minutes, also when the
\* clock crosses a window boundary between the lookup and the save.
C26_StoredWindowIsTraded ==
    \A c \in 1..Len(calls) :
        calls[c].row # None =>
            LET row == ledger[calls[c].row[1]]
            IN  /\ row.slug = calls[c].slug
                /\ row.window_start = calls[c].slug[3]
                /\ row.window_end = calls[c].slug[3] + WINDOW_SEC


\* C27: the signal fields stored with a trade are the values that produced
\* its stored edge: best_bid, best_ask, p_yes, imbalance and funding_bias of
\* the row equal what calculate_edge used when it computed the row's edge,
\* also when the feeds change between the computation and the write.
C27_StoredSignalIsUsed ==
    \A c \in 1..Len(calls) :
        calls[c].row # None =>
            LET row == ledger[calls[c].row[1]]
                sig == calls[c].sig
            IN  /\ row.edge = sig.edge
                /\ row.best_bid = sig.best_bid
                /\ row.best_ask = sig.best_ask
                /\ row.p_yes = sig.p_up
                /\ row.imbalance = sig.imbalance
                /\ row.funding_bias = calls[c].bias


\* C24: a decision pass that ends without a trade leaves the world
\* unchanged: when the market is not found, the decision is NONE, the trend
\* filter vetoes or the chosen price is <= 0, trade_symbol has submitted no
\* order and the ledger is exactly as it was when the pass began.
C24_NoTradeNoChange ==
    (pc = "next" /\ ts.why \in {"not_found", "none", "veto", "price"}) =>
        /\ calls = ts.before.calls
        /\ ledger = ts.before.ledger

\* A pass that stopped at the price check, with a trade in the ledger.
C24_Witness ==
    /\ pc = "next"
    /\ ts.why = "price"
    /\ ledger # <<>>
    /\ ledger = ts.before.ledger
    /\ calls = ts.before.calls


\* C30: the driver loop only stops on a user interrupt.  An exception raised
\* during a cycle (in a decision pass, the settlement pass or the report
\* generation) is caught in main: the loop pauses 60 seconds, changes
\* nothing else, and starts its next cycle at the next window boundary plus
\* the delay.  The cycle counter advances only when a settlement pass has
\* completed (and starts from 0 when the bot is started again).
C30_OnlyInterruptStops ==
    /\ [][(pc' = "except" /\ pc # "except") =>
              pc \in {"edge", "commit", "report"}]_vars
    /\ [][(pc = "except" /\ pc' # "stopped") =>
              /\ pc' = "wait"
              /\ clock' = clock + 60
              /\ UNCHANGED <<cycle, ledger, calls, applied>>]_vars
    /\ [][(pc = "wait" /\ pc' \notin {"wait", "stopped"}) =>
              /\ pc' = "trade"
              /\ clock' > clock + WINDOW_DELAY_SEC
              /\ clock' - WINDOW_DELAY_SEC <= clock + WINDOW_SEC
              /\ (clock' - WINDOW_DELAY_SEC) % WINDOW_SEC = 0]_vars
    /\ [][(pc' = "stopped" /\ pc # "stopped") =>
              UNCHANGED <<clock, cycle, ledger, calls, applied>>]_vars
    /\ [][cycle' # cycle =>
              \/ /\ pc \in {"settle", "commit"}
                 /\ pc' \in {"wait", "report"}
                 /\ cycle' = (cycle + 1) % 16
                 /\ pc' = "report" <=> cycle' = 0
              \/ pc = "stopped" /\ pc' = "wait" /\ cycle' = 0]_vars

\* The loop is waiting for the next window 60 seconds after the report of
\* the 16th cycle raised: both decision passes and the settlement pass of
\* that cycle had completed.
C30_Witness ==
    /\ pc = "wait"
    /\ cycle = 0
    /\ clock = REPORT_EVERY * WINDOW_SEC + WINDOW_DELAY_SEC
                  + 2 * SYMBOL_SLEEP_SEC + ERROR_SLEEP_SEC


\* C21: in every cycle of the main loop each configured instrument gets
\* exactly one decision pass (the passes begin in the order of MARKETS, one
\* per entry), all decision passes of the cycle complete before the
\* settlement pass of the cycle starts, and exactly one settlement pass runs
\* in the cycle: no cycle is cut short in its decision passes, and a cycle
\* ends only after its settlement pass.
C21_OnePassEachThenSettle ==
    /\ [][(pc' = "trade" /\ pc # "trade") =>
              /\ pc \in {"wait", "next", "stopped"}
              /\ idx' = (IF pc = "wait" THEN 1 ELSE idx + 1)
              /\ idx' \in 1..Len(MARKETS)]_vars
    /\ [][(pc' = "settle" /\ pc \notin {"settle", "stopped"}) =>
              pc = "next" /\ idx = Len(MARKETS)]_vars
    /\ [][(pc' = "wait" /\ pc \notin {"wait", "stopped"}) =>
              \/ pc \in {"settle", "commit", "report"}
              \/ pc = "except" /\ idx = 0]_vars

=============================================================================
